---- MODULE Spec2Model ----
(***************************************************************************)
(* ASKAP -> MWA trigger orchestration (ASKAPTriggerMWA.py).                *)
(*                                                                         *)
(* The model holds the sqlite store (tables mwatrigger and mwacal), one    *)
(* engine (ASKAPMWATrigger) per scheduling block id, the primary           *)
(* telescope's status oracle and a clock.  One clock tick is half a dedup  *)
(* window (calsearchwindow = 1/24 day, so a tick is 30 minutes): every     *)
(* sleep of the engine (5 s .. a few minutes) is shorter than a tick, so   *)
(* the clock advances by the separate action Tick, between any two steps.  *)
(* Python's None is NULL (0) for a group id, the empty sequence for an     *)
(* optional value (a fetched row, a trigger response).                     *)
(***************************************************************************)
EXTENDS Integers, Sequences, FiniteSets, TLC

VARIABLES
    mwatrigger,   \* table mwatrigger: set of rows [SBID, TIME, groupid, calobs]
    mwacal,       \* table mwacal: set of rows [calgroupid, time]
    now,          \* the clock (MJD, in ticks)
    sbstate,      \* primary telescope: ObsState ordinal of each scheduling block
    dryrun,       \* the --dryrun flag every engine is launched with
    eng,          \* the engine process of each scheduling block id
    out,          \* the trigger request built by the last engine step (<<>>: none)
    hist,         \* history of calibration triggers and of terminations
    api           \* the last direct call of a store operation (<<>>: none)

vars == <<mwatrigger, mwacal, now, sbstate, dryrun, eng, out, hist, api>>

\* ------------------------------------------------------------------ bounds
MaxTime == 3
SBIDs == {1, 2}
ObsidLists == {<<>>, <<101>>}    \* obsid_list of a trigger response

\* --------------------------------------------------------- program constants
NULL == 0
EXECUTING == 3
Statuses == {2, 3, 4}             \* ObsState ordinals: scheduled, executing, after
HalfWindow == 1
calsearchwindow == 2 * HalfWindow
calfirst == TRUE
calexptime == 120
SettleMargin == 8

Gps(t) == t + 1                  \* _get_current_gps_time: positive, grows with the clock

\* ASKAPSchedBlock.start_time: the MJD of executive.start_time, which the
\* metadata holds once the block executes; 0 when reading it fails
StartTime(state) == IF state < EXECUTING THEN 0 ELSE 1

\* ------------------------------------------------------------------- store
Rows(db, sbid) == {r \in db : r.SBID = sbid}

\* SELECT * FROM mwatrigger WHERE SBID = ?; fetchone
QueryRecord(db, sbid) ==
    IF Rows(db, sbid) = {} THEN <<>>
    ELSE LET r == CHOOSE x \in Rows(db, sbid) : TRUE
         IN  <<[time |-> r.TIME, groupid |-> r.groupid, calobs |-> r.calobs]>>

\* INSERT INTO mwatrigger; SBID is the PRIMARY KEY, a constraint violation is
\* caught and logged
InsertRecord(db, row) ==
    IF Rows(db, row.SBID) # {} THEN db ELSE db \cup {row}

\* UPDATE mwatrigger SET <the keys of upd> WHERE SBID = ?
Updated(r, upd) ==
    [SBID |-> r.SBID,
     TIME |-> IF "time" \in DOMAIN upd THEN upd.time ELSE r.TIME,
     groupid |-> IF "groupid" \in DOMAIN upd THEN upd.groupid ELSE r.groupid,
     calobs |-> IF "calobs" \in DOMAIN upd THEN upd.calobs ELSE r.calobs]

UpdateRecordWriteOnce(db, sbid, upd) ==
    {IF r.SBID = sbid
        THEN (IF r.groupid # NULL THEN [Updated(r, upd) EXCEPT !.groupid = r.groupid]
              ELSE Updated(r, upd))
        ELSE r : r \in db}

UpdateRecord(db, sbid, upd) ==
    {IF r.SBID = sbid THEN Updated(r, upd) ELSE r : r \in db}

\* INSERT INTO mwacal; calgroupid is the PRIMARY KEY
InsertCalRecord(db, row) ==
    IF \E r \in db : r.calgroupid = row.calgroupid THEN db ELSE db \cup {row}

\* SELECT * FROM mwacal WHERE TIME > time - window; fetchone
QueryCalRecordNoWindow(db, time, window) ==
    LET rows == {r \in db : r.time > time}
        record == IF rows = {} THEN <<>> ELSE <<CHOOSE r \in rows : TRUE>>
    IN  IF record # <<>> THEN TRUE ELSE FALSE

QueryCalRecordInclusive(db, time, window) ==
    LET rows == {r \in db : r.time >= time - window}
        record == IF rows = {} THEN <<>> ELSE <<CHOOSE r \in rows : TRUE>>
    IN  IF record # <<>> THEN TRUE ELSE FALSE

QueryCalRecord(db, time, window) ==
    LET rows == {r \in db : r.time > time - window}
        record == IF rows = {} THEN <<>> ELSE <<CHOOSE r \in rows : TRUE>>
    IN  IF record # <<>> THEN TRUE ELSE FALSE

\* --------------------------------------------------------- trigger client
HealthOutcomes == {"true", "false", "transport", "httperr", "malformed"}
HealthFailures == {"transport", "httperr", "malformed"}
TriggerOutcomes == {"transport", "notsuccess", "success"}

\* how one refresh and parse of the scheduling block's metadata ends:
\* SchedulingBlock(sbid) raises (service unreachable), no scan variable, a scan
\* with differing targets over the antennas, a field direction that does not
\* parse, or a coordinate
MetaOutcomes == {"resolved", "unreachable", "noscans", "flyseye", "unparsable"}

\* MWATrigger.check_array_ready: only requests.get and raise_for_status are
\* inside the try; response.json() is outside it
CheckArrayReady(o) ==
    CASE o \in {"transport", "httperr"} -> "None"
      [] o = "malformed" -> "raise"
      [] o = "true"  -> "False"          \* busy: not ready
      [] o = "false" -> "True"

\* MWATrigger.check_corr_ready: healthy, oversampling = response.json()
CheckCorrReady(o) ==
    CASE o \in {"transport", "httperr"} -> "None"
      [] o = "malformed" -> "raise"
      [] o = "true"  -> "False"          \* oversampling: not ready
      [] o = "false" -> "True"

Truthy(v) == v = "True"

\* ASKAPMWATrigger.mwa_status: both checks are called, then `a and b`
MwaStatus(a, c) ==
    LET array_ready == CheckArrayReady(a)
        corr_ready == CheckCorrReady(c)
    IN  IF array_ready = "raise" \/ corr_ready = "raise" THEN "raise"
        ELSE IF Truthy(array_ready) THEN corr_ready ELSE array_ready

\* MWATrigger.trigger after the dry-run return: the POST and its answer
TriggerResponseNoSuccessCheck(o, obsids) ==
    IF o = "transport" THEN <<>> ELSE <<obsids>>

TriggerResponse(o, obsids) ==
    IF o = "success" THEN <<obsids>> ELSE <<>>

\* MWATrigger.trigger: a dry run returns None before the POST
TriggerNoDryrunReturn(dry, o, obsids) ==
    [posted |-> TRUE, response |-> TriggerResponse(o, obsids)]

Trigger(dry, o, obsids) ==
    IF dry THEN [posted |-> FALSE, response |-> <<>>]
    ELSE [posted |-> TRUE, response |-> TriggerResponse(o, obsids)]

\* MWATrigger.trigger: trigger_data = params.copy(); trigger_data.update(kwargs)
\* (the keys of the parameters)
TriggerData(params, kwargs) == params \cup kwargs

\* MWATrigger.trigger: the url holds key=value for every key of trigger_data,
\* and logger.info writes the url (the keys whose values the entry shows)
TriggerLog(trigger_data) == trigger_data

\* ASKAPMWATrigger._get_trigger_obsids
GetTriggerObsidsNoneFirst(response, dry, t) ==
    IF response = <<>> THEN <<NULL>>
    ELSE IF dry THEN <<Gps(t)>>
    ELSE IF Len(response[1]) = 0 THEN <<Gps(t)>>
    ELSE response[1]

GetTriggerObsids(response, dry, t) ==
    IF dry THEN <<Gps(t)>>
    ELSE IF response = <<>> THEN <<NULL>>
    ELSE IF Len(response[1]) = 0 THEN <<Gps(t)>>
    ELSE response[1]

\* `response is not None or self.dryrun`
Issued(response, dry) == response # <<>> \/ dry

\* ------------------------------------------------------------------ engine
IdlePcs == {"idle", "killed", "done", "aborted", "crashed"}
SleepPcs == {"gate_sleep", "pre_sleep", "wait_sleep", "loop_idle_sleep",
             "loop_cal_sleep", "sci_sleep", "fail_sleep", "final_sleep"}
CalPcs == {"cal_query", "cal_dedup", "cal_send", "cal_mark", "cal_gid", "cal_log"}
GatePcs == {"gate_poll", "gate_sleep", "gate_repoll", "gate_check"}

Fresh ==
    [pc |-> "idle", ret |-> "none", groupid |-> NULL, calstatus |-> FALSE,
     hasRa |-> FALSE, coord |-> FALSE, sbOk |-> TRUE, status |-> 0, mwastatus |-> "None", response |-> <<>>,
     calexist |-> FALSE, sent |-> FALSE, logged |-> FALSE,
     restarted |-> FALSE, bornDone |-> FALSE, bornGid |-> FALSE,
     emptyStart |-> FALSE, scen |-> FALSE, ncal |-> 0, nsci |-> 0, nclose |-> 0]

Running(s) == eng[s].pc \notin IdlePcs \cup {"off"}

Stored(s) == QueryRecord(mwatrigger, s)
StoredGid(s) == IF Stored(s) = <<>> THEN NULL ELSE Stored(s)[1].groupid
StoredCal(s) == IF Stored(s) = <<>> THEN FALSE ELSE Stored(s)[1].calobs

\* ageIssued: ticks since the last calibration trigger issued (remote call
\* answered with success, or dry run), counted up to one dedup window (then: a
\* window or more ago, or never).  ageOk: the same, not counting a trigger cut
\* off by a termination before its calibration event was appended.
HistInit == [ageIssued |-> calsearchwindow, ageOk |-> calsearchwindow]

Off == [Fresh EXCEPT !.pc = "off"]      \* no engine is ever launched for this id

Init ==
    /\ mwatrigger = {}
    /\ mwacal = {}
    /\ now = 0
    /\ sbstate = [s \in SBIDs |-> 2]
    /\ dryrun \in BOOLEAN
    /\ eng = [s \in SBIDs |-> IF s = 1 THEN Fresh ELSE Off]
    /\ out = <<>>
    /\ hist = HistInit
    /\ api = <<>>

\* the locals of a finished trigger_mwa_cal / trigger_mwa call are dead once
\* the caller has taken its next step
Cleared(e) ==
    [e EXCEPT !.calexist = FALSE, !.sent = FALSE, !.logged = FALSE, !.response = <<>>]

\* scen: the run so far is a dry run launched on an empty store for a block
\* that was executing, every readiness poll answered ready, and the block was
\* still executing at every status poll up to the first science decision and
\* finished at the one after it.  ncal, nsci, nclose: in such a run, the calls
\* of trigger_mwa_cal before the closing one, of trigger_mwa, and the closing
\* calls of trigger_mwa_cal.
Counted(e) ==
    IF e.scen THEN e ELSE [e EXCEPT !.ncal = 0, !.nsci = 0, !.nclose = 0]

\* an engine step: the fields it assigns; o is what the step emits
Emit(s, e, o) ==
    /\ eng' = [eng EXCEPT ![s] =
                IF eng[s].pc \in CalPcs \cup {"sci_send", "sci_gid"} THEN Counted(e)
                ELSE Counted(Cleared(e))]
    /\ out' = o

Step(s, e) == Emit(s, e, <<>>)

\* the process is launched for s (askap_trigger_mwa -s s); one at a time.
\* restarted, bornDone, bornGid: it follows a terminated engine; the record's
\* calibration-done flag and group id were set when it was launched.
Start(s) ==
    /\ eng[s].pc \in IdlePcs
    /\ \A t \in SBIDs : ~Running(t)
    /\ Step(s, [Fresh EXCEPT !.pc = "init",
                             !.restarted = eng[s].pc = "killed",
                             !.bornDone = StoredCal(s),
                             !.bornGid = StoredGid(s) # NULL,
                             !.emptyStart = (mwatrigger = {} /\ mwacal = {}),
                             !.scen = dryrun /\ mwatrigger = {} /\ mwacal = {}])
    /\ UNCHANGED <<mwatrigger, mwacal, now, sbstate, dryrun, hist, api>>

\* the process ends: return from run, or an uncaught exception
Halt(e, pc) == [Fresh EXCEPT !.pc = pc]

\* the engine's fields after one evaluation of mwa_status with answers a, c
PolledAlwaysReady(e, a, c, ready, notready) ==
    LET m == MwaStatus(a, c)
    IN  IF m = "raise" THEN Halt(e, "crashed")
        ELSE [e EXCEPT !.mwastatus = "True", !.scen = @ /\ Truthy(m), !.pc = ready]

Polled(e, a, c, ready, notready) ==
    LET m == MwaStatus(a, c)
    IN  IF m = "raise" THEN Halt(e, "crashed")
        ELSE [e EXCEPT !.mwastatus = m, !.scen = @ /\ Truthy(m),
                       !.pc = IF Truthy(m) THEN ready ELSE notready]

\* the HTTP GETs one evaluation of mwa_status sends: check_array_ready's and,
\* unless that raised, check_corr_ready's; neither looks at the dry-run flag
HealthQueriesDryrunNone(a, dry) ==
    IF dry THEN 0 ELSE IF CheckArrayReady(a) = "raise" THEN 1 ELSE 2

HealthQueries(a, dry) == IF CheckArrayReady(a) = "raise" THEN 1 ELSE 2

\* what a poll emits: whether one of its two health queries failed to complete
PollEvent(s, a, c) ==
    <<[kind |-> "poll", sbid |-> s, result |-> MwaStatus(a, c),
       failed |-> a \in HealthFailures \/ c \in HealthFailures,
       gets |-> HealthQueries(a, dryrun)]>>

\* where the caller branches on mwastatus in the statement that follows the
\* poll, the value is dead once the branch is taken
Branched(e) == [e EXCEPT !.mwastatus = "None"]

\* ASKAPMWATrigger._init_db_record: the store after it, and the group id it loads
InitDbRecordReplace(db, sbid, time) ==
    (db \ Rows(db, sbid))
        \cup {[SBID |-> sbid, TIME |-> time, groupid |-> NULL, calobs |-> FALSE]}

InitDbRecord(db, sbid, time) ==
    IF QueryRecord(db, sbid) # <<>> THEN db
    ELSE InsertRecord(db, [SBID |-> sbid, TIME |-> time,
                           groupid |-> NULL, calobs |-> FALSE])

InitGroupid(db, sbid) ==
    IF QueryRecord(db, sbid) # <<>> THEN QueryRecord(db, sbid)[1].groupid ELSE NULL

\* ASKAPMWATrigger.__init__
Construct(s) ==
    /\ eng[s].pc = "init"
    /\ \E reachable \in BOOLEAN :
         /\ mwatrigger' = InitDbRecord(mwatrigger, s,
                              IF reachable THEN StartTime(sbstate[s]) ELSE 0)
         /\ Step(s, [eng[s] EXCEPT !.pc = "run_status", !.sbOk = reachable,
                                   !.groupid = InitGroupid(mwatrigger, s)])
    /\ UNCHANGED <<mwacal, now, sbstate, dryrun, hist, api>>

\* run: status = self.sbid_status; if status > 3: return
RunStatusNoAbort(s) ==
    /\ eng[s].pc = "run_status"
    /\ Step(s, IF ~eng[s].sbOk THEN Halt(eng[s], "crashed")
               ELSE [eng[s] EXCEPT !.status = sbstate[s], !.pc = "run_query",
                                   !.scen = @ /\ sbstate[s] = EXECUTING])
    /\ UNCHANGED <<mwatrigger, mwacal, now, sbstate, dryrun, hist, api>>

RunStatus(s) ==
    /\ eng[s].pc = "run_status"
    /\ Step(s, IF ~eng[s].sbOk THEN Halt(eng[s], "crashed")
               ELSE IF sbstate[s] > EXECUTING THEN Halt(eng[s], "aborted")
               ELSE [eng[s] EXCEPT !.status = sbstate[s], !.pc = "run_query",
                                   !.scen = @ /\ sbstate[s] = EXECUTING])
    /\ UNCHANGED <<mwatrigger, mwacal, now, sbstate, dryrun, hist, api>>

\* run: calstatus = query_record(sbid)["calobs"]
RunCalstatusStale(db, sbid) == FALSE

RunCalstatus(db, sbid) == QueryRecord(db, sbid)[1].calobs

RunQuery(s) ==
    /\ eng[s].pc = "run_query"
    /\ Step(s, IF Stored(s) = <<>> THEN Halt(eng[s], "crashed")
               ELSE [eng[s] EXCEPT !.calstatus = RunCalstatus(mwatrigger, s),
                                   !.pc = "run_resolve"])
    /\ UNCHANGED <<mwatrigger, mwacal, now, sbstate, dryrun, hist, api>>

\* ASKAPSchedBlock._refresh_schedblock: askap_schedblock is None when
\* SchedulingBlock(sbid) raised; obsparams and obsvar then keep what they held
RefreshSchedblock(m) == m # "unreachable"

\* get_schedblock_source: whether self.coord is a coordinate after it; stale:
\* what the metadata kept from the refresh before gives, when this one failed
GetSchedblockSource(m, stale) ==
    CASE m = "resolved" -> TRUE
      [] m = "unreachable" -> stale
      [] OTHER -> FALSE

\* get_schedblock_source: on success params gets ra/dec, on failure coord is
\* (None, None) and params keeps what it had
Resolve(s) ==
    /\ eng[s].pc \in {"run_resolve", "loop_resolve"}
    /\ \E m \in MetaOutcomes, stale \in BOOLEAN :
         LET resolved == GetSchedblockSource(m, stale)
         IN
         Step(s, [eng[s] EXCEPT
                    !.hasRa = @ \/ resolved,
                    !.coord = resolved,
                    !.sbOk = RefreshSchedblock(m),
                    !.ret = IF eng[s].pc = "loop_resolve" THEN "loop" ELSE @,
                    !.pc = IF eng[s].pc = "loop_resolve" THEN "cal_query"
                           ELSE IF calfirst /\ ~eng[s].calstatus THEN "gate_poll"
                           ELSE "wait_poll"])
    /\ UNCHANGED <<mwatrigger, mwacal, now, sbstate, dryrun, hist, api>>

\* pre-calibration gate: mwastatus = self.mwa_status; while not mwastatus
GatePoll(s) ==
    /\ eng[s].pc = "gate_poll"
    /\ \E a, c \in HealthOutcomes :
         Emit(s, Branched(Polled([eng[s] EXCEPT !.ret = "pre"], a, c,
                                 "cal_query", "gate_sleep")),
              PollEvent(s, a, c))
    /\ UNCHANGED <<mwatrigger, mwacal, now, sbstate, dryrun, hist, api>>

\* in the gate's loop: mwastatus = self.mwa_status
GateRepoll(s) ==
    /\ eng[s].pc = "gate_repoll"
    /\ \E a, c \in HealthOutcomes :
         Emit(s, Polled(eng[s], a, c, "gate_check", "gate_check"), PollEvent(s, a, c))
    /\ UNCHANGED <<mwatrigger, mwacal, now, sbstate, dryrun, hist, api>>

\* in the gate's loop: if self.sbid_status > 3: close; return None
GateCheckNoStatus(s) ==
    /\ eng[s].pc = "gate_check"
    /\ Step(s, IF ~eng[s].sbOk THEN Halt(eng[s], "crashed")
               ELSE Branched([eng[s] EXCEPT !.ret = "pre",
                        !.pc = IF Truthy(eng[s].mwastatus) THEN "cal_query"
                               ELSE "gate_sleep"]))
    /\ UNCHANGED <<mwatrigger, mwacal, now, sbstate, dryrun, hist, api>>

GateCheck(s) ==
    /\ eng[s].pc = "gate_check"
    /\ Step(s, IF ~eng[s].sbOk THEN Halt(eng[s], "crashed")
               ELSE IF sbstate[s] > EXECUTING THEN Halt(eng[s], "aborted")
               ELSE Branched([eng[s] EXCEPT !.ret = "pre",
                        !.pc = IF Truthy(eng[s].mwastatus) THEN "cal_query"
                               ELSE "gate_sleep"]))
    /\ UNCHANGED <<mwatrigger, mwacal, now, sbstate, dryrun, hist, api>>

\* where trigger_mwa_cal returns to, and whether the caller then sleeps
AfterCalNoWait(ret, response) ==
    CASE ret = "pre"   -> "wait_poll"
      [] ret = "loop"  -> "sci_check"
      [] ret = "final" -> "final_sleep"

AfterCalSkipsScience(ret, response) ==
    CASE ret = "pre"   -> IF Issued(response, dryrun) THEN "pre_sleep" ELSE "wait_poll"
      [] ret = "loop"  -> IF Issued(response, dryrun) THEN "sci_sleep" ELSE "fail_sleep"
      [] ret = "final" -> "final_sleep"

AfterCal(ret, response) ==
    CASE ret = "pre"   -> IF Issued(response, dryrun) THEN "pre_sleep" ELSE "wait_poll"
      [] ret = "loop"  -> IF Issued(response, dryrun) THEN "loop_cal_sleep" ELSE "sci_check"
      [] ret = "final" -> "final_sleep"

\* after trigger_mwa in the execution loop: sleep(exptime - buffertime) or sleep(5)
AfterSci(response) ==
    IF Issued(response, dryrun) THEN "sci_sleep" ELSE "fail_sleep"

\* trigger_mwa_cal: calexist = query_cal_record(mjdnow, window); if calexist
CalBranchAlwaysSend(calexist) == "cal_send"

CalBranch(calexist) == IF calexist THEN "cal_dedup" ELSE "cal_send"

CalQuery(s) ==
    /\ eng[s].pc = "cal_query"
    /\ LET calexist == QueryCalRecord(mwacal, now, calsearchwindow)
       IN  Step(s, [eng[s] EXCEPT !.calexist = calexist, !.sent = FALSE,
                                  !.logged = FALSE, !.response = <<>>,
                                  !.ncal = IF eng[s].ret # "final" /\ @ < 3
                                             THEN @ + 1 ELSE @,
                                  !.nclose = IF eng[s].ret = "final" /\ @ < 2
                                             THEN @ + 1 ELSE @,
                                  !.pc = CalBranch(calexist)])
    /\ UNCHANGED <<mwatrigger, mwacal, now, sbstate, dryrun, hist, api>>

\* update_record(sbid=self.sbid, calobs=True)
MarkCalDoneFullRow(db, sbid) ==
    UpdateRecord(db, sbid, [time |-> 0, groupid |-> NULL, calobs |-> TRUE])

MarkCalDone(db, sbid) == UpdateRecord(db, sbid, [calobs |-> TRUE])

\* trigger_mwa_cal: update_record(calobs=True); return None
CalDedup(s) ==
    /\ eng[s].pc = "cal_dedup"
    /\ mwatrigger' = MarkCalDone(mwatrigger, s)
    /\ Step(s, [eng[s] EXCEPT !.pc = AfterCal(eng[s].ret, <<>>)])
    /\ UNCHANGED <<mwacal, now, sbstate, dryrun, hist, api>>

\* the groupid parameter of a request: `if self.groupid: kwargs.update(groupid=...)`
GroupidParamNone(groupid) == NULL

GroupidParam(groupid) == IF groupid # NULL THEN groupid ELSE NULL

\* a trigger request: the parameters of its url, whether it was only a dry
\* run, whether it was issued (answered with success, or a dry run), and whether
\* the previous issued calibration trigger was less than a window ago (closeOk:
\* not counting one cut off by a termination)
CalRequest(s, ok) ==
    [kind |-> "cal", sbid |-> s, groupid |-> GroupidParam(eng[s].groupid),
     altaz |-> ~eng[s].hasRa, dry |-> dryrun, ok |-> ok,
     closeIssued |-> ok /\ hist.ageIssued < calsearchwindow,
     closeOk |-> ok /\ hist.ageOk < calsearchwindow]

SciRequest(s, ok) ==
    [kind |-> "sci", sbid |-> s, groupid |-> GroupidParam(eng[s].groupid),
     altaz |-> FALSE, dry |-> dryrun, ok |-> ok,
     closeIssued |-> FALSE, closeOk |-> FALSE]

\* self.mwatrigger.params: project_id and secure_key from construction, ra and
\* dec once get_schedblock_source has called update_default_params
Params(e) ==
    {"project_id", "secure_key"} \cup (IF e.hasRa THEN {"ra", "dec"} ELSE {})

\* the kwargs trigger_mwa_cal and trigger_mwa pass to MWATrigger.trigger
CalKwargs(e) ==
    (IF ~e.hasRa THEN {"alt", "az"} ELSE {})
        \cup (IF GroupidParam(e.groupid) # NULL THEN {"groupid"} ELSE {})
        \cup {"calexptime", "calibrator", "exptime", "nobs"}

SciKwargs(e) == IF GroupidParam(e.groupid) # NULL THEN {"groupid"} ELSE {}

\* what one call of MWATrigger.trigger did: whether it POSTed, how the remote
\* call ended ("dry": no call), and the url entry it wrote to the log; phase:
\* the place of run that made the call (before execution, loop, closing)
Sent(req, t, o, kwargs, e) ==
    [kind |-> req.kind, sbid |-> req.sbid, groupid |-> req.groupid,
     altaz |-> req.altaz, dry |-> req.dry, ok |-> req.ok,
     closeIssued |-> req.closeIssued, closeOk |-> req.closeOk,
     phase |-> IF req.kind = "sci" THEN "loop" ELSE e.ret,
     resolved |-> e.coord, posted |-> t.posted, outcome |-> IF t.posted THEN o ELSE "dry",
     log |-> TriggerLog(TriggerData(Params(e), kwargs))]


\* trigger_mwa_cal: response = self.mwatrigger.trigger(**kwargs)
CalSend(s) ==
    /\ eng[s].pc = "cal_send"
    /\ \E o \in TriggerOutcomes, obsids \in ObsidLists :
         LET t == Trigger(dryrun, o, obsids)
             response == t.response
             ok == Issued(response, dryrun)
         IN  /\ eng' = [eng EXCEPT ![s] =
                    [@ EXCEPT !.response = response, !.sent = TRUE,
                              !.pc = IF ok THEN "cal_mark"
                                     ELSE AfterCal(eng[s].ret, response)]]
             /\ hist' = [hist EXCEPT !.ageIssued = IF ok THEN 0 ELSE @,
                                      !.ageOk = IF ok THEN 0 ELSE @]
             /\ out' = <<Sent(CalRequest(s, ok), t, o, CalKwargs(eng[s]), eng[s])>>
    /\ UNCHANGED <<mwatrigger, mwacal, now, sbstate, dryrun, api>>

\* trigger_mwa_cal: update_record(calobs=True)
CalMark(s) ==
    /\ eng[s].pc = "cal_mark"
    /\ mwatrigger' = MarkCalDone(mwatrigger, s)
    /\ Step(s, [eng[s] EXCEPT !.pc = IF eng[s].groupid = NULL THEN "cal_gid"
                                     ELSE "cal_log"])
    /\ UNCHANGED <<mwacal, now, sbstate, dryrun, hist, api>>

\* trigger_mwa_cal: self.groupid = _get_trigger_obsids(response)[0]; update_record
CalGid(s) ==
    /\ eng[s].pc = "cal_gid"
    /\ LET g == GetTriggerObsids(eng[s].response, dryrun, now)[1]
       IN  /\ mwatrigger' = UpdateRecord(mwatrigger, s, [groupid |-> g])
           /\ Step(s, [eng[s] EXCEPT !.groupid = g, !.pc = "cal_log"])
    /\ UNCHANGED <<mwacal, now, sbstate, dryrun, hist, api>>

\* trigger_mwa_cal: insert_cal_record(calgroupid=gps now, time=mjd now)
CalLog(s) ==
    /\ eng[s].pc = "cal_log"
    /\ mwacal' = InsertCalRecord(mwacal, [calgroupid |-> Gps(now), time |-> now])
    /\ Step(s, [eng[s] EXCEPT !.logged = TRUE,
                              !.pc = AfterCal(eng[s].ret, eng[s].response)])
    /\ UNCHANGED <<mwatrigger, now, sbstate, dryrun, hist, api>>

\* wait-for-execution gate: status = sbid_status; mwastatus = mwa_status;
\* while status < 3 or (status == 3 and not mwastatus): sleep(10)
WaitPoll(s) ==
    /\ eng[s].pc = "wait_poll"
    /\ \E a, c \in HealthOutcomes :
         LET st == sbstate[s]
         IN  IF ~eng[s].sbOk THEN Step(s, Halt(eng[s], "crashed"))
             ELSE Emit(s, Branched(Polled([eng[s] EXCEPT !.status = st,
                                                        !.coord = FALSE,
                                                        !.scen = @ /\ st = EXECUTING],
                                          a, c,
                            IF st < EXECUTING THEN "wait_sleep" ELSE "loop_head",
                            IF st > EXECUTING THEN "loop_head" ELSE "wait_sleep")),
                  PollEvent(s, a, c))
    /\ UNCHANGED <<mwatrigger, mwacal, now, sbstate, dryrun, hist, api>>

\* while status == 3: ...; after the loop the closing trigger_mwa_cal
LoopHead(s) ==
    /\ eng[s].pc = "loop_head"
    /\ Step(s, IF eng[s].status = EXECUTING THEN [eng[s] EXCEPT !.pc = "loop_ready"]
               ELSE [eng[s] EXCEPT !.pc = "cal_query", !.ret = "final"])
    /\ UNCHANGED <<mwatrigger, mwacal, now, sbstate, dryrun, hist, api>>

\* in the loop: mwastatus = mwa_status; if not mwastatus: status = sbid_status
LoopReady(s) ==
    /\ eng[s].pc = "loop_ready"
    /\ \E a, c \in HealthOutcomes :
         LET e == Polled(eng[s], a, c, "loop_resolve", "loop_idle_sleep")
         IN  Emit(s, Branched(IF e.pc = "loop_idle_sleep"
                                THEN (IF ~eng[s].sbOk THEN Halt(eng[s], "crashed")
                                      ELSE [e EXCEPT !.status = sbstate[s]])
                                ELSE e),
                  PollEvent(s, a, c))
    /\ UNCHANGED <<mwatrigger, mwacal, now, sbstate, dryrun, hist, api>>

\* trigger_mwa: if "ra" not in params: return None
SciCheck(s) ==
    /\ eng[s].pc = "sci_check"
    /\ Step(s, IF ~eng[s].hasRa
                 THEN (IF ~eng[s].sbOk THEN Halt(eng[s], "crashed")
                       ELSE [eng[s] EXCEPT !.response = <<>>, !.coord = FALSE,
                                           !.nsci = IF @ < 2 THEN @ + 1 ELSE @,
                                           !.pc = AfterSci(<<>>)])
                 ELSE [eng[s] EXCEPT !.pc = "sci_send",
                                     !.nsci = IF @ < 2 THEN @ + 1 ELSE @])
    /\ UNCHANGED <<mwatrigger, mwacal, now, sbstate, dryrun, hist, api>>

\* trigger_mwa: `(response is not None or self.dryrun) and self.groupid is None`
AssignsGroupidAlways(response, groupid) == Issued(response, dryrun)

AssignsGroupid(response, groupid) == Issued(response, dryrun) /\ groupid = NULL

\* trigger_mwa: response = self.mwatrigger.trigger(**kwargs)
SciSend(s) ==
    /\ eng[s].pc = "sci_send"
    /\ \E o \in TriggerOutcomes, obsids \in ObsidLists :
         LET t == Trigger(dryrun, o, obsids)
             response == t.response
         IN  /\ eng' = [eng EXCEPT ![s] =
                    [@ EXCEPT !.response = response, !.coord = FALSE,
                              !.pc = IF AssignsGroupid(response, eng[s].groupid)
                                        THEN "sci_gid" ELSE AfterSci(response)]]
             /\ out' = <<Sent(SciRequest(s, Issued(response, dryrun)), t, o,
                               SciKwargs(eng[s]), eng[s])>>
    /\ UNCHANGED <<mwatrigger, mwacal, now, sbstate, dryrun, hist, api>>

\* trigger_mwa: self.groupid = _get_trigger_obsids(response)[0]; update_record
SciGid(s) ==
    /\ eng[s].pc = "sci_gid"
    /\ LET g == GetTriggerObsids(eng[s].response, dryrun, now)[1]
       IN  /\ mwatrigger' = UpdateRecord(mwatrigger, s, [groupid |-> g])
           /\ Step(s, [eng[s] EXCEPT !.groupid = g,
                                     !.pc = AfterSci(eng[s].response)])
    /\ UNCHANGED <<mwacal, now, sbstate, dryrun, hist, api>>

\* end of a loop iteration: status = self.sbid_status
LoopStatus(s) ==
    /\ eng[s].pc = "loop_status"
    /\ Step(s, IF ~eng[s].sbOk THEN Halt(eng[s], "crashed")
               ELSE [eng[s] EXCEPT !.status = sbstate[s], !.pc = "loop_head",
                                   !.scen = @ /\ sbstate[s] > EXECUTING])
    /\ UNCHANGED <<mwatrigger, mwacal, now, sbstate, dryrun, hist, api>>

\* time.sleep(...) and what follows it; after the last one, close and return
AfterSleepFinalRepoll(pc) ==
    CASE pc = "gate_sleep"      -> "gate_repoll"
      [] pc = "pre_sleep"       -> "wait_poll"
      [] pc = "wait_sleep"      -> "wait_poll"
      [] pc = "loop_idle_sleep" -> "loop_head"
      [] pc = "loop_cal_sleep"  -> "sci_check"
      [] pc = "sci_sleep"       -> "loop_status"
      [] pc = "fail_sleep"      -> "loop_status"
      [] pc = "final_sleep"     -> "loop_status"

AfterSleep(pc) ==
    CASE pc = "gate_sleep"      -> "gate_repoll"
      [] pc = "pre_sleep"       -> "wait_poll"
      [] pc = "wait_sleep"      -> "wait_poll"
      [] pc = "loop_idle_sleep" -> "loop_head"
      [] pc = "loop_cal_sleep"  -> "sci_check"
      [] pc = "sci_sleep"       -> "loop_status"
      [] pc = "fail_sleep"      -> "loop_status"
      [] pc = "final_sleep"     -> "done"

\* the seconds of the sleeps that follow a calibration attempt:
\* time.sleep(calexptime + 8) before execution and in the loop,
\* time.sleep(calexptime) after the closing one
CalWait(pc) ==
    CASE pc = "pre_sleep"      -> calexptime + SettleMargin
      [] pc = "loop_cal_sleep" -> calexptime + SettleMargin
      [] pc = "final_sleep"    -> calexptime

Sleep(s) ==
    /\ eng[s].pc \in SleepPcs
    /\ Step(s, IF AfterSleep(eng[s].pc) = "done" THEN Halt(eng[s], "done")
               ELSE [eng[s] EXCEPT !.pc = AfterSleep(eng[s].pc)])
    /\ UNCHANGED <<mwatrigger, mwacal, now, sbstate, dryrun, hist, api>>

\* the controlling process terminates the engine, at any point.  A calibration
\* trigger cut off between its remote call and the append of its calibration
\* event is dropped from the history of issued triggers (ageOk).
InFlightPcs == {"cal_mark", "cal_gid", "cal_log"}

Kill(s) ==
    /\ Running(s)
    /\ eng' = [eng EXCEPT ![s] = Halt(eng[s], "killed")]
    /\ hist' = IF eng[s].pc \in InFlightPcs
                THEN [hist EXCEPT !.ageOk = calsearchwindow] ELSE hist
    /\ out' = <<>>
    /\ UNCHANGED <<mwatrigger, mwacal, now, sbstate, dryrun, api>>

\* environment: time passes; the primary observation moves on
Tick ==
    /\ now < MaxTime
    /\ now' = now + 1
    /\ hist' = [hist EXCEPT
            !.ageIssued = IF @ < calsearchwindow THEN @ + 1 ELSE @,
            !.ageOk = IF @ < calsearchwindow THEN @ + 1 ELSE @]
    /\ UNCHANGED <<mwatrigger, mwacal, sbstate, dryrun, eng, out, api>>

Advance(s) ==
    /\ eng[s].pc # "off"
    /\ sbstate[s] + 1 \in Statuses
    /\ sbstate' = [sbstate EXCEPT ![s] = @ + 1]
    /\ UNCHANGED <<mwatrigger, mwacal, now, dryrun, eng, out, hist, api>>

EngineStep(s) ==
    \/ Construct(s) \/ RunStatus(s) \/ RunQuery(s) \/ Resolve(s)
    \/ GatePoll(s) \/ GateRepoll(s) \/ GateCheck(s)
    \/ CalQuery(s) \/ CalDedup(s) \/ CalSend(s) \/ CalMark(s) \/ CalGid(s) \/ CalLog(s)
    \/ WaitPoll(s) \/ LoopHead(s) \/ LoopReady(s)
    \/ SciCheck(s) \/ SciSend(s) \/ SciGid(s) \/ LoopStatus(s) \/ Sleep(s)

Next ==
    \/ \E s \in SBIDs : Start(s) \/ EngineStep(s) \/ Kill(s) \/ Advance(s)
    \/ Tick

Spec == Init /\ [][Next]_vars

\* ------------------------------------ engines one after another, never terminated
\* Both observations get an engine.  LotrunRunner.changed queues it when the
\* block's state becomes EXECUTING; the blocks execute one after the other, so
\* the second engine is launched after the first has ended and its block has
\* finished.  No engine is terminated from outside.
InitSeq ==
    /\ mwatrigger = {}
    /\ mwacal = {}
    /\ now = 0
    /\ sbstate = [s \in SBIDs |-> 2]
    /\ dryrun \in BOOLEAN
    /\ eng = [s \in SBIDs |-> Fresh]
    /\ out = <<>>
    /\ hist = HistInit
    /\ api = <<>>

\* LotrunRunner.changed: if state == ObsState.EXECUTING: executing_run()
Launch(s) ==
    /\ eng[s].pc = "idle"
    /\ sbstate[s] = EXECUTING
    /\ \A t \in SBIDs : t < s => eng[t].pc \in {"done", "aborted", "crashed"}
                                  /\ sbstate[t] > EXECUTING
    /\ Start(s)

\* a block starts executing once the blocks before it have finished
AdvanceInTurn(s) ==
    /\ \A t \in SBIDs : t < s => sbstate[t] > EXECUTING
    /\ Advance(s)

NextSeq ==
    \/ \E s \in SBIDs : Launch(s) \/ EngineStep(s) \/ AdvanceInTurn(s)
    \/ Tick

SpecSeq == InitSeq /\ [][NextSeq]_vars

\* ------------------------------------------- a running engine keeps stepping
\* No engine is terminated from outside; a launched process is scheduled,
\* its sleeps end and its remote calls return, so a running engine always
\* takes its next step.
NextLive ==
    \/ \E s \in SBIDs : Start(s) \/ EngineStep(s) \/ Advance(s)
    \/ Tick

\* the ids Init has an engine for
LiveSbids == {s \in SBIDs : s = 1}

SpecLive ==
    Init /\ [][NextLive]_vars /\ \A s \in LiveSbids : WF_vars(EngineStep(s))

\* ------------------------------------------------------- a store that fails
\* MWATriggerDB's operations catch every exception and log it: a write that
\* raised did not land, a query that raised returns None.  The steps below are
\* the engine's steps at its store calls when the call fails.

\* _init_db_record: query_record raised and returned None, so the insert is
\* tried (it lands only when there is no row) and self.groupid = None
ConstructReadFails(s) ==
    /\ eng[s].pc = "init"
    /\ \E reachable \in BOOLEAN :
         /\ mwatrigger' = InsertRecord(mwatrigger,
                [SBID |-> s, TIME |-> IF reachable THEN StartTime(sbstate[s]) ELSE 0,
                 groupid |-> NULL, calobs |-> FALSE])
         /\ Step(s, [eng[s] EXCEPT !.pc = "run_status", !.sbOk = reachable,
                                   !.groupid = NULL])
    /\ UNCHANGED <<mwacal, now, sbstate, dryrun, hist, api>>

\* _init_db_record: no row, and insert_record raised: no row afterwards
ConstructInsertLost(s) ==
    /\ eng[s].pc = "init"
    /\ Stored(s) = <<>>
    /\ \E reachable \in BOOLEAN :
         Step(s, [eng[s] EXCEPT !.pc = "run_status", !.sbOk = reachable,
                               !.groupid = NULL])
    /\ UNCHANGED <<mwatrigger, mwacal, now, sbstate, dryrun, hist, api>>

\* run: trigger_status = query_record(sbid) raised and is None;
\* trigger_status["calobs"] raises TypeError
RunQueryFails(s) ==
    /\ eng[s].pc = "run_query"
    /\ Step(s, Halt(eng[s], "crashed"))
    /\ UNCHANGED <<mwatrigger, mwacal, now, sbstate, dryrun, hist, api>>

\* update_record or insert_cal_record raised: the engine goes on as after a
\* write that landed, the store keeps what it held
LostWrite(s) ==
    /\ eng[s].pc \in {"cal_dedup", "cal_mark", "cal_gid", "cal_log", "sci_gid"}
    /\ LET e == eng[s]
           g == GetTriggerObsids(e.response, dryrun, now)[1]
       IN  Step(s, CASE e.pc = "cal_dedup" -> [e EXCEPT !.pc = AfterCal(e.ret, <<>>)]
                     [] e.pc = "cal_mark" ->
                            [e EXCEPT !.pc = IF e.groupid = NULL THEN "cal_gid"
                                             ELSE "cal_log"]
                     [] e.pc = "cal_gid" -> [e EXCEPT !.groupid = g, !.pc = "cal_log"]
                     [] e.pc = "cal_log" ->
                            [e EXCEPT !.logged = TRUE,
                                      !.pc = AfterCal(e.ret, e.response)]
                     [] e.pc = "sci_gid" ->
                            [e EXCEPT !.groupid = g, !.pc = AfterSci(e.response)])
    /\ UNCHANGED <<mwatrigger, mwacal, now, sbstate, dryrun, hist, api>>

NextFault ==
    \/ NextLive
    \/ \E s \in SBIDs : \/ ConstructReadFails(s) \/ ConstructInsertLost(s)
                         \/ RunQueryFails(s) \/ LostWrite(s)

SpecFault == Init /\ [][NextFault]_vars

\* ------------------------------------------------ two engines at the same time
\* Both observations' processes are launched while their blocks execute and
\* run at the same time against the one store, their steps interleaved in
\* any order; each is followed through construction, the gate and the
\* calibration attempt before execution, up to the sleep after it.
InitTwo ==
    /\ mwatrigger = {}
    /\ mwacal = {}
    /\ now = 0
    /\ sbstate = [s \in SBIDs |-> EXECUTING]
    /\ dryrun \in BOOLEAN
    /\ eng = [s \in SBIDs |-> Fresh]
    /\ out = <<>>
    /\ hist = HistInit
    /\ api = <<>>

\* askap_trigger_mwa -s s, whatever the other process does
StartBeside(s) ==
    /\ eng[s].pc = "idle"
    /\ Step(s, [Fresh EXCEPT !.pc = "init",
                             !.emptyStart = (mwatrigger = {} /\ mwacal = {})])
    /\ UNCHANGED <<mwatrigger, mwacal, now, sbstate, dryrun, hist, api>>

NextTwo ==
    \E s \in SBIDs :
        \/ StartBeside(s)
        \/ Construct(s) \/ RunStatus(s) \/ RunQuery(s) \/ Resolve(s)
        \/ GatePoll(s) \/ GateRepoll(s) \/ GateCheck(s)
        \/ CalQuery(s) \/ CalDedup(s) \/ CalSend(s) \/ CalMark(s) \/ CalGid(s)
        \/ CalLog(s) \/ Sleep(s)

SpecTwo == InitTwo /\ [][NextTwo]_vars

\* ------------------------------------------------ the store operations alone
\* Direct calls of MWATriggerDB's operations, with arguments from small sets.
StoreSbids == {1}
GroupIds == {NULL, 7, 8}
RecordTimes == {0, 1}

InitStore ==
    /\ mwatrigger = {}
    /\ mwacal = {}
    /\ now = 0
    /\ sbstate = [s \in SBIDs |-> 2]
    /\ dryrun = FALSE
    /\ eng = [s \in SBIDs |-> Off]
    /\ out = <<>>
    /\ hist = HistInit
    /\ api = <<>>

\* insert_record(sbid=, time=, groupid=, calobs=)
ApiInsertRecord ==
    /\ \E s \in StoreSbids, t \in RecordTimes, g \in GroupIds, c \in BOOLEAN :
         /\ mwatrigger' = InsertRecord(mwatrigger,
                [SBID |-> s, TIME |-> t, groupid |-> g, calobs |-> c])
         /\ api' = <<[op |-> "insert_record", sbid |-> s]>>
    /\ UNCHANGED <<mwacal, now, sbstate, dryrun, eng, out, hist>>

\* update_record(sbid, groupid=g)
ApiUpdateGroupid ==
    /\ \E s \in StoreSbids, g \in GroupIds :
         /\ mwatrigger' = UpdateRecord(mwatrigger, s, [groupid |-> g])
         /\ api' = <<[op |-> "update_groupid", sbid |-> s, groupid |-> g,
                      found |-> Stored(s) # <<>>, before |-> StoredGid(s)]>>
    /\ UNCHANGED <<mwacal, now, sbstate, dryrun, eng, out, hist>>

\* update_record(sbid, calobs=c)
ApiUpdateCalobs ==
    /\ \E s \in StoreSbids, c \in BOOLEAN :
         /\ mwatrigger' = UpdateRecord(mwatrigger, s, [calobs |-> c])
         /\ api' = <<[op |-> "update_calobs", sbid |-> s]>>
    /\ UNCHANGED <<mwacal, now, sbstate, dryrun, eng, out, hist>>

\* insert_cal_record(calgroupid=gps now, time=mjd now)
ApiInsertCal ==
    /\ mwacal' = InsertCalRecord(mwacal, [calgroupid |-> Gps(now), time |-> now])
    /\ api' = <<[op |-> "insert_cal_record"]>>
    /\ UNCHANGED <<mwatrigger, now, sbstate, dryrun, eng, out, hist>>

\* query_cal_record(time, window)
ApiQueryCal ==
    /\ \E t \in 0..MaxTime :
         api' = <<[op |-> "query_cal_record", time |-> t,
                   result |-> QueryCalRecord(mwacal, t, calsearchwindow)]>>
    /\ UNCHANGED <<mwatrigger, mwacal, now, sbstate, dryrun, eng, out, hist>>

NextStore ==
    \/ ApiInsertRecord \/ ApiUpdateGroupid \/ ApiUpdateCalobs
    \/ ApiInsertCal \/ ApiQueryCal \/ Tick

SpecStore == InitStore /\ [][NextStore]_vars

\* ------------------------------------------------- target resolution alone
\* get_schedblock_source on given metadata.  scans[i] is the set of the targets
\* that the variables schedblock.scan<i-1>.target.<ant> name over the antennas
\* (scans are numbered from 0 without gaps); dirs[src] is the coordinate the
\* field direction of src parses to, or "bad" when it is missing or does not parse.
MaxScans == 3
ScanLimit == 100
SourceNames == {"srcA", "srcB"}
Directions == {"c1", "c2", "bad"}
TargetSets == (SUBSET SourceNames) \ {{}}
ScanLists == UNION {[1..n -> TargetSets] : n \in 0..MaxScans}
Unresolved == "none"

\* ASKAPSchedBlock._find_scan_source: the one target of a scan; the assert
\* fails when the antennas differ
FindScanSource(targets) ==
    IF Cardinality(targets) = 1 THEN CHOOSE src \in targets : TRUE ELSE "raise"

\* ASKAPSchedBlock.get_scan_source: scan_src_match, for scans 0 .. 99 at most
GetScanSource(scans) ==
    [i \in 1..(IF Len(scans) < ScanLimit THEN Len(scans) ELSE ScanLimit)
        |-> FindScanSource(scans[i])]

\* self.sources
ScanSources(match) == {match[i] : i \in DOMAIN match}

\* get_schedblock_source: srclst of one source gives that source's coordinate,
\* otherwise the source of max(scan_src_match.keys()); any exception gives
\* (None, None)
ResolveTargetFirstScan(scans, dirs) ==
    LET match == GetScanSource(scans)
        sources == ScanSources(match)
    IN  IF "raise" \in sources THEN Unresolved
        ELSE IF \E src \in sources : dirs[src] = "bad" THEN Unresolved
        ELSE IF Cardinality(sources) = 1 THEN dirs[CHOOSE src \in sources : TRUE]
        ELSE IF DOMAIN match = {} THEN Unresolved
        ELSE dirs[match[1]]

ResolveTarget(scans, dirs) ==
    LET match == GetScanSource(scans)
        sources == ScanSources(match)
    IN  IF "raise" \in sources THEN Unresolved
        ELSE IF \E src \in sources : dirs[src] = "bad" THEN Unresolved
        ELSE IF Cardinality(sources) = 1 THEN dirs[CHOOSE src \in sources : TRUE]
        ELSE IF DOMAIN match = {} THEN Unresolved
        ELSE LET maxscan == CHOOSE i \in DOMAIN match : \A j \in DOMAIN match : j <= i
             IN  dirs[match[maxscan]]

InitResolve ==
    /\ mwatrigger = {}
    /\ mwacal = {}
    /\ now = 0
    /\ sbstate = [s \in SBIDs |-> 2]
    /\ dryrun = FALSE
    /\ eng = [s \in SBIDs |-> Off]
    /\ out = <<>>
    /\ hist = HistInit
    /\ \E scans \in ScanLists, dirs \in [SourceNames -> Directions] :
         api = <<[op |-> "metadata", scans |-> scans, dirs |-> dirs]>>

\* get_schedblock_source()
ApiResolve ==
    /\ api[1].op = "metadata"
    /\ api' = <<[op |-> "resolve", scans |-> api[1].scans, dirs |-> api[1].dirs,
                 coord |-> ResolveTarget(api[1].scans, api[1].dirs)]>>
    /\ UNCHANGED <<mwatrigger, mwacal, now, sbstate, dryrun, eng, out, hist>>

NextResolve == ApiResolve

SpecResolve == InitResolve /\ [][NextResolve]_vars

\* ------------------------------------ one pass of run in dry-run and in live mode
\* What one call of trigger_mwa_cal and the caller's sleep after it, and in the
\* execution loop the call of trigger_mwa and the sleep after it, do in the mode
\* of the dryrun flag, every remote call answered with success and an empty
\* obsid_list: the store writes in order, and the sleeps in order.
\* c: [ret, calexist, hasRa, groupid, t], the place of the call in run, what
\* query_cal_record answers, whether params holds ra, self.groupid, the time.
CalPass(c) ==
    IF CalBranch(c.calexist) = "cal_dedup"
      THEN [writes |-> <<[op |-> "calobs"]>>, response |-> <<>>, groupid |-> c.groupid]
      ELSE LET response == Trigger(dryrun, "success", <<>>).response
               g == GetTriggerObsids(response, dryrun, c.t)[1]
           IN  IF ~Issued(response, dryrun)
                 THEN [writes |-> <<>>, response |-> response, groupid |-> c.groupid]
                 ELSE [writes |-> <<[op |-> "calobs"]>>
                                    \o (IF c.groupid = NULL
                                          THEN <<[op |-> "groupid", value |-> g]>>
                                          ELSE <<>>)
                                    \o <<[op |-> "calevent", time |-> c.t]>>,
                       response |-> response,
                       groupid |-> IF c.groupid = NULL THEN g ELSE c.groupid]

SciPass(c, groupid) ==
    IF ~c.hasRa
      THEN [writes |-> <<>>, response |-> <<>>]
      ELSE LET response == Trigger(dryrun, "success", <<>>).response
               g == GetTriggerObsids(response, dryrun, c.t)[1]
           IN  [writes |-> IF AssignsGroupid(response, groupid)
                             THEN <<[op |-> "groupid", value |-> g]>> ELSE <<>>,
                response |-> response]

RunPass(c) ==
    LET cal == CalPass(c)
        after == AfterCal(c.ret, cal.response)
        sci == SciPass(c, cal.groupid)
    IN  IF c.ret # "loop"
          THEN [writes |-> cal.writes,
                waits |-> IF after \in SleepPcs THEN <<after>> ELSE <<>>]
          ELSE [writes |-> cal.writes \o sci.writes,
                waits |-> (IF after \in SleepPcs THEN <<after>> ELSE <<>>)
                            \o <<AfterSci(sci.response)>>]

PassInputs ==
    [ret : {"pre", "loop", "final"}, calexist : BOOLEAN, hasRa : BOOLEAN,
     groupid : {NULL, 7}, t : 0 .. MaxTime]

InitTwin ==
    /\ mwatrigger = {}
    /\ mwacal = {}
    /\ now = 0
    /\ sbstate = [s \in SBIDs |-> EXECUTING]
    /\ dryrun = TRUE
    /\ eng = [s \in SBIDs |-> Off]
    /\ out = <<>>
    /\ hist = HistInit
    /\ \E c \in PassInputs : api = <<[op |-> "inputs", c |-> c]>>

\* the pass with dryrun=True
ApiDryPass ==
    /\ api[1].op = "inputs" /\ dryrun
    /\ api' = <<[op |-> "dry", c |-> api[1].c, dry |-> RunPass(api[1].c)]>>
    /\ dryrun' = FALSE
    /\ UNCHANGED <<mwatrigger, mwacal, now, sbstate, eng, out, hist>>

\* the pass on the same inputs with dryrun=False
ApiLivePass ==
    /\ api[1].op = "dry" /\ ~dryrun
    /\ api' = <<[op |-> "both", c |-> api[1].c, dry |-> api[1].dry,
                 live |-> RunPass(api[1].c)]>>
    /\ UNCHANGED <<mwatrigger, mwacal, now, sbstate, dryrun, eng, out, hist>>

NextTwin == ApiDryPass \/ ApiLivePass

SpecTwin == InitTwin /\ [][NextTwin]_vars

\* ================================================================== claims
Gid(db, s) == IF QueryRecord(db, s) = <<>> THEN NULL ELSE QueryRecord(db, s)[1].groupid
Cal(db, s) == IF QueryRecord(db, s) = <<>> THEN FALSE ELSE QueryRecord(db, s)[1].calobs
IsRequest(o) == o # <<>> /\ o[1].kind \in {"cal", "sci"}
IsCal(o) == o # <<>> /\ o[1].kind = "cal"
IsPoll(o) == o # <<>> /\ o[1].kind = "poll"
PreCal(e) == e.pc \in GatePcs \cup {"pre_sleep"} \/ (e.pc \in CalPcs /\ e.ret = "pre")

\* C1: over calibration triggers, science triggers and restarts of the engine
\* of one observation (one engine at a time, the store working), a stored
\* group id that is non-null never changes to another value.
C1_GroupIdFrozen ==
    [][\A s \in SBIDs :
          Gid(mwatrigger, s) # NULL => Gid(mwatrigger', s) = Gid(mwatrigger, s)]_vars

\* C1 witness: an engine launched after a termination, for a record that
\* already had its group id, has issued a further trigger carrying it.
C1_Witness ==
    \E s \in SBIDs :
        /\ eng[s].restarted /\ eng[s].bornGid
        /\ IsRequest(out) /\ out[1].sbid = s /\ out[1].ok
        /\ StoredGid(s) # NULL

C3_RequestsCarryGroupId ==
    \A s \in SBIDs :
        (IsRequest(out) /\ out[1].sbid = s /\ StoredGid(s) # NULL)
            => out[1].groupid = StoredGid(s)

\* C3 witness: a restarted engine has built a science request with the group
\* id that was stored before it was launched.
C3_Witness ==
    \E s \in SBIDs :
        /\ eng[s].restarted /\ eng[s].bornGid
        /\ out # <<>> /\ out[1].kind = "sci" /\ out[1].sbid = s
        /\ out[1].groupid = StoredGid(s)

\* C4: constructing the engine for an observation id leaves exactly one record
\* for that id, and when a record already exists (a restart, also after triggers
\* have updated it) the construction leaves its time, group id and
\* calibration-done flag as they were.
C4_GetOrCreateIdempotent ==
    [][\A s \in SBIDs :
          /\ Cardinality(Rows(mwatrigger', s)) <= 1
          /\ (eng[s].pc = "init" /\ eng'[s].pc = "run_status")
                => /\ Cardinality(Rows(mwatrigger', s)) = 1
                   /\ Rows(mwatrigger, s) # {}
                        => Rows(mwatrigger', s) = Rows(mwatrigger, s)]_vars

\* C4 witness: a construction has completed on a record that triggers of an
\* earlier, terminated engine had updated.
C4_Witness ==
    \E s \in SBIDs :
        /\ eng[s].pc = "run_status"
        /\ eng[s].restarted /\ eng[s].bornGid /\ eng[s].bornDone

C6_NoPreCalAfterRestart ==
    \A s \in SBIDs :
        eng[s].bornDone
            => /\ ~PreCal(eng[s])
               /\ eng[s].pc \notin {"init", "run_status", "run_query"} => eng[s].calstatus

\* C6 witness: the earlier engine was terminated right after the flag was
\* persisted (no calibration event, no group id yet), and the restarted one is
\* past the place of the gate.
C6_Witness ==
    \E s \in SBIDs :
        /\ eng[s].restarted /\ eng[s].bornDone /\ ~eng[s].bornGid
        /\ mwacal = {}
        /\ eng[s].pc = "wait_poll"

\* C7: in a calibration attempt whose windowed query found a recent event, the
\* engine sends no request and appends no calibration event, and when the
\* attempt returns the record's calibration-done flag is true.
C7_DedupSkipsTrigger ==
    \A s \in SBIDs :
        eng[s].calexist
            => /\ ~eng[s].sent /\ ~eng[s].logged /\ ~IsRequest(out)
               /\ eng[s].pc \in {"cal_dedup"} \cup (IF StoredCal(s) THEN {
                     "pre_sleep", "wait_poll", "loop_cal_sleep", "sci_check",
                     "final_sleep"} ELSE {})

\* C7 witness: a deduplicated attempt of the execution loop has returned.
C7_Witness ==
    \E s \in SBIDs :
        /\ eng[s].calexist /\ eng[s].ret = "loop"
        /\ eng[s].pc \in {"loop_cal_sleep", "sci_check"}

\* C8: the windowed query is true exactly when the log holds an event later
\* than (query time - window); with one event at T it is true at T + window/2
\* and false at T + 3*window/2.
C8_WindowQuery ==
    (api # <<>> /\ api[1].op = "query_cal_record")
        => /\ api[1].result
                = (\E e \in mwacal : e.time > api[1].time - calsearchwindow)
           /\ \A e \in mwacal :
                mwacal = {e}
                    => /\ api[1].time = e.time + HalfWindow => api[1].result
                       /\ api[1].time = e.time + 3 * HalfWindow => ~api[1].result

\* C8 witness: one event at T, queried at T + 3*window/2.
C8_Witness ==
    /\ api # <<>> /\ api[1].op = "query_cal_record"
    /\ \E e \in mwacal : mwacal = {e} /\ api[1].time = e.time + 3 * HalfWindow
    /\ ~api[1].result

\* C9: the calibration-done flag of a record never goes from true to false, and
\* marking it done when it is already true leaves the record as it was.
C9_CalDoneMonotonic ==
    [][\A s \in SBIDs :
          Cal(mwatrigger, s)
            => /\ Cal(mwatrigger', s)
               /\ (eng[s].pc \in {"cal_dedup", "cal_mark"}
                     /\ eng'[s].pc \notin {eng[s].pc, "killed"})
                    => Rows(mwatrigger', s) = Rows(mwatrigger, s)]_vars

\* C9 witness: an engine launched with the flag already true has marked it
\* again (a deduplicated attempt that has returned).
C9_Witness ==
    \E s \in SBIDs :
        /\ eng[s].bornDone /\ eng[s].calexist
        /\ eng[s].pc \notin CalPcs

\* C10 (as claimed): when a health query of a poll fails to complete (transport
\* error, HTTP error status, malformed body) the readiness result is not-ready
\* and no exception ends the run.
C10_ReadinessFailClosed ==
    \A s \in SBIDs :
        (IsPoll(out) /\ out[1].sbid = s /\ out[1].failed)
            => /\ eng[s].pc # "crashed"
               /\ out[1].result \in {"False", "None"}

\* C11 (as claimed): a trigger request built in a cycle (the one before
\* execution, or one of the execution loop) whose target resolution ended
\* unresolved is never a science request, and a calibration request of such a
\* cycle carries the fallback pointing alt, az and no ra, dec.
C11_UnresolvedNoScience ==
    (IsRequest(out) /\ out[1].phase \in {"pre", "loop"} /\ ~out[1].resolved)
        => /\ out[1].kind = "cal"
           /\ {"alt", "az"} \subseteq out[1].log
           /\ out[1].log \cap {"ra", "dec"} = {}

\* C12: with dry-run enabled no trigger call, science or calibration, performs
\* the HTTP POST.
C12_DryRunNeverPosts ==
    dryrun => (IsRequest(out) => ~out[1].posted /\ out[1].outcome = "dry")

\* C12 witness: a dry-run science trigger has been made.
C12_Witness ==
    /\ dryrun /\ IsRequest(out) /\ out[1].kind = "sci"
    /\ \E s \in SBIDs : out[1].sbid = s /\ eng[s].pc \in {"sci_gid", "sci_sleep"}

\* C16: a live trigger whose remote call fails in transport or is answered
\* without success returns null and is not treated as issued; the step leaves
\* the store's record and calibration log and the engine's group id as they
\* were, and the engine goes on without any of the writes of a success.
C16_FailedTriggerNotRecorded ==
    [][\A s \in SBIDs :
          (/\ eng[s].pc \in {"cal_send", "sci_send"}
           /\ IsRequest(out') /\ out'[1].sbid = s
           /\ out'[1].outcome \in {"transport", "notsuccess"})
            => /\ eng'[s].response = <<>> /\ ~out'[1].ok
               /\ mwatrigger' = mwatrigger /\ mwacal' = mwacal
               /\ eng'[s].groupid = eng[s].groupid
               /\ eng'[s].pc \in {"wait_poll", "sci_check", "final_sleep",
                                   "fail_sleep"}]_vars

\* C16 witness: a live calibration trigger of the execution loop was answered
\* without success while the record had neither group id nor calibration-done.
C16_Witness ==
    \E s \in SBIDs :
        /\ IsCal(out) /\ out[1].sbid = s /\ out[1].outcome = "notsuccess"
        /\ eng[s].pc = "sci_check"
        /\ StoredGid(s) = NULL /\ ~StoredCal(s) /\ mwacal = {}

\* C17 (as claimed): no log entry written for a trigger, dry run or live,
\* shows the secure_key.
C17_SecureKeyNeverLogged ==
    IsRequest(out) => "secure_key" \notin out[1].log

\* C19 (as claimed): after a refresh of the metadata failed in a cycle
\* (metadata service unreachable), no later step of the run ends it with an
\* uncaught exception of the metadata accessors: the engine reaches its next
\* status poll and completes it.
C19_MetadataFailureNeverTerminates ==
    [][\A s \in SBIDs :
          (eng[s].pc \notin IdlePcs \cup {"off", "init", "run_status"}
                /\ ~eng[s].sbOk /\ eng'[s].pc = "crashed")
            => IsPoll(out') /\ out'[1].result = "raise"]_vars

\* C13 (as claimed): in a dry run from an empty store, the instrument ready, the
\* block executing at the start and finished right after the first science
\* decision, the run has made exactly one call of the calibration trigger
\* before the science decision, one science decision and one closing call.
C13_OneCalOneSciOneClosing ==
    \A s \in SBIDs :
        (eng[s].scen /\ eng[s].pc = "final_sleep")
            => eng[s].ncal = 1 /\ eng[s].nsci = 1 /\ eng[s].nclose = 1

\* C13 (amended): such a run makes exactly two calls of the calibration
\* trigger before its science decision (before execution, and in the first
\* cycle of the loop), then one science decision and one closing call.
C13_TwoCalOneSciOneClosing ==
    \A s \in SBIDs :
        eng[s].scen
            => /\ eng[s].nsci >= 1 => eng[s].ncal = 2
               /\ eng[s].nclose >= 1 => eng[s].nsci = 1
               /\ eng[s].pc = "final_sleep"
                    => eng[s].ncal = 2 /\ eng[s].nsci = 1 /\ eng[s].nclose = 1

\* C13 witness: such a run has made its closing call and waits to return.
C13_Witness ==
    \E s \in SBIDs : eng[s].scen /\ eng[s].pc = "final_sleep" /\ eng[s].nclose = 1

\* C14: a dry run launched on an empty store that reaches its end (the wait
\* after the closing calibration) leaves the record with calibration-done true
\* and a non-null group id.
C14_DryRunRecordComplete ==
    \A s \in SBIDs :
        (dryrun /\ eng[s].emptyStart /\ eng[s].pc = "final_sleep")
            => StoredCal(s) /\ StoredGid(s) # NULL

\* C14 witness: the run of the scenario (executing at the start, finished
\* later, not aborted at the gate) is at its end with such a record.
C14_Witness ==
    \E s \in SBIDs :
        /\ eng[s].scen /\ eng[s].pc = "final_sleep"
        /\ StoredCal(s) /\ StoredGid(s) = eng[s].groupid /\ eng[s].groupid # NULL

\* C15 (as claimed): with dry-run enabled no request of any kind goes to the
\* secondary instrument: no trigger POST and no health query.
C15_DryRunNoNetwork ==
    dryrun => /\ IsRequest(out) => ~out[1].posted
              /\ IsPoll(out) => out[1].gets = 0

\* C15 (amended): with dry-run enabled no trigger POST goes out, while every
\* readiness poll still sends its health queries.
C15_DryRunOnlyHealthQueries ==
    dryrun => /\ IsRequest(out) => ~out[1].posted
              /\ IsPoll(out) => out[1].gets >= 1

\* C15 witness: a dry run has polled readiness with both health queries.
C15_Witness ==
    dryrun /\ IsPoll(out) /\ out[1].gets = 2 /\ out[1].result = "True"

\* C20: the run returns only from the wait after the closing calibration; that
\* closing attempt is entered once, when the loop is left because the polled
\* status is not executing, and after it is entered the run makes no other
\* calibration attempt and no science trigger.
C20_OneClosingCalibration ==
    [][\A s \in SBIDs :
          /\ (eng'[s].pc = "done" /\ eng[s].pc # "done") => eng[s].pc = "final_sleep"
          /\ (eng'[s].pc = "final_sleep" /\ eng[s].pc # "final_sleep")
                => eng[s].ret = "final" /\ eng[s].pc \in {"cal_dedup", "cal_send", "cal_log"}
          /\ (eng[s].pc = "loop_head" /\ eng[s].status # EXECUTING
                    /\ eng'[s].pc \notin {"loop_head", "killed"})
                => eng'[s].pc = "cal_query" /\ eng'[s].ret = "final"
          /\ (eng'[s].pc = "cal_query" /\ eng'[s].ret = "final"
                    /\ eng[s].pc # "cal_query")
                => eng[s].pc = "loop_head" /\ eng[s].status # EXECUTING
          /\ (eng[s].ret = "final" /\ eng'[s].pc # eng[s].pc)
                => /\ eng'[s].pc \in (CalPcs \ {"cal_query"})
                                        \cup {"final_sleep", "done", "killed"}
                   /\ eng'[s].pc \in CalPcs => eng'[s].ret = "final"
                   /\ IsRequest(out') => out'[1].kind = "cal"]_vars

\* C20 witness: a live run left the loop after a science trigger had set the
\* group id, sent its closing calibration and logged it.
C20_Witness ==
    \E s \in SBIDs :
        /\ ~dryrun /\ eng[s].pc = "final_sleep"
        /\ eng[s].sent /\ eng[s].logged
        /\ StoredGid(s) # NULL

\* C18: on metadata in which every scan has one target and every bound source
\* a direction that parses, resolution returns the coordinate of the only
\* source when one source is bound to the scans, and the coordinate of the
\* source of the highest-numbered scan when several are bound.
C18_HighestScanWins ==
    (api # <<>> /\ api[1].op = "resolve")
        => LET scans == api[1].scans
               dirs == api[1].dirs
               bound == UNION {scans[i] : i \in 1..Len(scans)}
           IN  ((\A i \in 1..Len(scans) : Cardinality(scans[i]) = 1)
                    /\ (\A src \in bound : dirs[src] # "bad"))
                 => /\ \A src \in bound : bound = {src} => api[1].coord = dirs[src]
                    /\ Cardinality(bound) > 1
                         => \E src \in bound :
                                /\ scans[Len(scans)] = {src}
                                /\ api[1].coord = dirs[src]

\* C18 witness: scans 0 -> srcA, 1 -> srcB with different coordinates resolve
\* to srcB's coordinate.
C18_Witness ==
    /\ api # <<>> /\ api[1].op = "resolve"
    /\ api[1].scans = <<{"srcA"}, {"srcB"}>>
    /\ api[1].dirs["srcA"] = "c1" /\ api[1].dirs["srcB"] = "c2"
    /\ api[1].coord = "c2"

\* C23: a science trigger is attempted only in an iteration of the execution
\* loop that was entered with the last polled status executing and whose
\* readiness poll answered ready; an iteration whose poll answered not ready
\* makes no trigger, re-reads the status and sleeps before the next iteration.
C23_ScienceOnlyWhenReady ==
    [][\A s \in SBIDs :
          /\ (eng'[s].pc = "loop_resolve" /\ eng[s].pc # "loop_resolve")
                => /\ eng[s].pc = "loop_ready" /\ eng[s].status = EXECUTING
                   /\ IsPoll(out') /\ out'[1].result = "True"
          /\ (eng'[s].pc \in {"sci_check", "sci_send", "sci_gid"}
                    /\ eng[s].pc \notin {"sci_check", "sci_send", "sci_gid"})
                => /\ eng[s].ret = "loop" /\ eng[s].status = EXECUTING
                   /\ eng[s].pc \in CalPcs \cup {"loop_cal_sleep"}
          /\ (eng'[s].pc \in CalPcs /\ eng'[s].ret = "loop" /\ eng[s].pc \notin CalPcs)
                => eng[s].pc = "loop_resolve"
          /\ (eng' # eng /\ IsRequest(out') /\ out'[1].sbid = s /\ out'[1].kind = "sci")
                => eng[s].pc = "sci_send" /\ eng[s].status = EXECUTING
          /\ (eng[s].pc = "loop_ready" /\ eng'[s] # eng[s] /\ IsPoll(out')
                    /\ out'[1].result \in {"False", "None"})
                => /\ eng'[s].pc \in {"loop_idle_sleep", "crashed"}
                   /\ eng'[s].pc = "loop_idle_sleep" => eng'[s].status = sbstate[s]
          /\ (eng[s].pc = "loop_idle_sleep" /\ eng'[s].pc # eng[s].pc)
                => eng'[s].pc \in {"loop_head", "killed"} /\ ~IsRequest(out')]_vars

\* C23 witness: a science trigger has been sent while the block executes.
C23_Witness ==
    \E s \in SBIDs :
        /\ out # <<>> /\ out[1].kind = "sci" /\ out[1].sbid = s
        /\ eng[s].status = EXECUTING /\ eng[s].pc = "sci_sleep"

\* C24: the calibration attempt before execution is entered only after a
\* readiness poll of the gate answered ready; no trigger is made while the
\* engine is in the gate; and when the status read in the gate's loop exceeds
\* executing the run ends there, with no trigger and no write.
C24_GateNeedsReady ==
    [][\A s \in SBIDs :
          /\ (eng'[s].pc = "cal_query" /\ eng'[s].ret = "pre" /\ eng[s].pc # "cal_query")
                => \/ eng[s].pc = "gate_poll" /\ IsPoll(out') /\ out'[1].result = "True"
                   \/ /\ eng[s].pc = "gate_check" /\ Truthy(eng[s].mwastatus)
                      /\ sbstate[s] <= EXECUTING
          /\ eng[s].pc \in GatePcs => ~IsRequest(out')
          /\ (eng[s].pc = "gate_check" /\ eng[s].sbOk /\ sbstate[s] > EXECUTING
                    /\ eng'[s].pc \notin {"gate_check", "killed"})
                => /\ eng'[s].pc = "aborted"
                   /\ mwatrigger' = mwatrigger /\ mwacal' = mwacal]_vars

\* C24 witness: the gate waited, then saw ready and the calibration attempt
\* before execution has sent its trigger.
C24_Witness ==
    \E s \in SBIDs :
        /\ IsCal(out) /\ out[1].sbid = s /\ out[1].phase = "pre"
        /\ ~eng[s].scen /\ eng[s].emptyStart /\ dryrun

\* C25: when the first status read of a run exceeds executing the run ends
\* aborted in that step, with no trigger and no change of the record or of the
\* calibration log.
C25_FinishedAtStartAborts ==
    [][\A s \in SBIDs :
          (eng[s].pc = "run_status" /\ eng[s].sbOk /\ sbstate[s] > EXECUTING
                /\ eng'[s].pc \notin {"run_status", "killed"})
            => /\ eng'[s].pc = "aborted"
               /\ mwatrigger' = mwatrigger /\ mwacal' = mwacal
               /\ out' = <<>>]_vars

\* C25 witness: a run has ended aborted for a finished block, its record as
\* the construction left it and no calibration event.
C25_Witness ==
    \E s \in SBIDs :
        /\ eng[s].pc = "aborted" /\ sbstate[s] > EXECUTING
        /\ Stored(s) # <<>> /\ ~StoredCal(s) /\ StoredGid(s) = NULL
        /\ mwacal = {} /\ now = 0

\* C26: a calibration attempt that issued its trigger (success, or dry run)
\* returns into a sleep of at least the calibration exposure, of the exposure
\* plus the settling margin when a science trigger can follow; the engine
\* makes no request in a step that leaves a sleep.
C26_WaitAfterCalibration ==
    [][\A s \in SBIDs :
          /\ (eng[s].pc = "cal_log" /\ eng'[s].pc \notin {"cal_log", "killed"})
                => /\ eng'[s].pc \in {"pre_sleep", "loop_cal_sleep", "final_sleep"}
                   /\ CalWait(eng'[s].pc) >= calexptime
                   /\ eng[s].ret \in {"pre", "loop"}
                        => CalWait(eng'[s].pc) = calexptime + SettleMargin
          /\ (eng[s].pc \in {"cal_mark", "cal_gid"} /\ eng'[s].pc # eng[s].pc)
                => eng'[s].pc \in {"cal_gid", "cal_log", "killed"}
          /\ (eng[s].pc = "cal_send" /\ eng'[s] # eng[s] /\ IsCal(out') /\ out'[1].ok)
                => eng'[s].pc = "cal_mark"
          /\ (eng[s].pc \in SleepPcs \cup {"cal_mark", "cal_gid", "cal_log"}
                    /\ eng'[s] # eng[s])
                => ~IsRequest(out')]_vars

\* C26 witness: in the loop a live calibration trigger succeeded and the
\* engine sleeps before the science trigger.
C26_Witness ==
    \E s \in SBIDs :
        /\ ~dryrun /\ eng[s].pc = "loop_cal_sleep"
        /\ eng[s].sent /\ eng[s].logged /\ eng[s].response # <<>>

\* C22: with the engines run one after another and never terminated, no
\* calibration trigger is issued (answered with success, or dry run) less than
\* a dedup window after the previous issued one, whichever observation made
\* it, and any two calibration events of the log are a window or more apart.
C22_IssuedCalsWindowApart ==
    /\ \A s \in SBIDs : (IsCal(out) /\ out[1].sbid = s /\ out[1].ok)
                            => ~out[1].closeIssued
    /\ \A e1, e2 \in mwacal :
          e1 # e2 => \/ e1.time - e2.time >= calsearchwindow
                     \/ e2.time - e1.time >= calsearchwindow

\* C22 witness: the second observation's engine issues a calibration trigger
\* after the first observation's run issued and logged one.
C22_Witness ==
    /\ IsCal(out) /\ out[1].sbid = 2 /\ out[1].ok
    /\ StoredCal(1) /\ mwacal # {}
    /\ eng[1].pc = "done"

\* C21: if the block's status is from some point on above executing for good,
\* every running engine (of the ids an engine is launched for) eventually ends its run (returns or raises), whatever
\* the readiness polls, metadata lookups and remote calls answer.
C21_RunTerminates ==
    \A s \in LiveSbids :
        (<>[](sbstate[s] > EXECUTING)) => (Running(s) ~> ~Running(s))

\* C21 witness: a live run has returned after its block finished although
\* no calibration trigger was ever issued.
C21_Witness ==
    \E s \in SBIDs :
        /\ eng[s].pc = "done" /\ sbstate[s] > EXECUTING
        /\ ~dryrun /\ mwacal = {} /\ Stored(s) # <<>>

\* C27: a run whose record is missing because the initial insert did not land
\* goes on past the read of the calibration-done flag: it does not end there
\* by an uncaught exception.
C27_LostInsertTolerated ==
    [][\A s \in SBIDs :
          (eng[s].pc = "run_query" /\ Stored(s) = <<>>)
            => eng'[s].pc # "crashed"]_vars

\* C28: where the engine decides whether to assign the group id (after the
\* calibration-done update of trigger_mwa_cal, after the remote call of
\* trigger_mwa), the value it branches on equals the stored group id.
C28_DecidesOnStoredGroupId ==
    \A s \in SBIDs :
        eng[s].pc \in {"cal_mark", "sci_send"} => eng[s].groupid = StoredGid(s)

\* C29: with two engines for different observations running at the same time,
\* no calibration trigger is issued less than a dedup window after the
\* previous issued one, and a step of one engine leaves the other
\* observation's record as it was.
C29_ConcurrentEnginesDedup ==
    [][/\ (IsCal(out') /\ out' # out /\ out'[1].ok) => ~out'[1].closeIssued
       /\ \A s, t \in SBIDs :
             (s # t /\ eng'[s] # eng[s]) => Rows(mwatrigger', t) = Rows(mwatrigger, t)]_vars

\* C30: on the same inputs, a pass of run in dry-run mode and a pass in live
\* mode whose remote calls all succeed with an empty obsid_list make the same
\* store writes in the same order and the same sleeps in the same order.
C30_DryRunMatchesLive ==
    (api # <<>> /\ api[1].op = "both")
        => /\ api[1].dry.writes = api[1].live.writes
           /\ api[1].dry.waits = api[1].live.waits

====
